---- MODULE Spec2Model ----
(***************************************************************************)
(* A model of the rust-acd client (src/src/lib.rs): the retry loop of      *)
(* get_server_response_with_retry, the token refresh it drives, the        *)
(* sqlite node cache and the path resolver built on both.                  *)
(*                                                                         *)
(* The server is the environment: every send is answered by any transport  *)
(* error or any (status, body) pair.  One client runs one operation at a   *)
(* time (the methods take &mut self), so an operation is a call stack of   *)
(* get_server_response_with_retry frames; a step is one send, its answer,  *)
(* and all the client does up to its next send or the operation's return.  *)
(* The sqlite store is taken to be healthy (its calls do not fail); a      *)
(* failing write of authorization.json is modelled.                        *)
(***************************************************************************)
EXTENDS Integers, Sequences, FiniteSets, TLC

\* ------------------------------------------------------------- bounds ---
MaxSends == 6       \* sends one get_server_response_with_retry call may make
MaxLoop == 11       \* the same, against the server that always says "expired"
MaxExpiry == 1      \* expired-token answers any server gives one call
MaxRows == 2        \* rows the path_cache table may hold
MaxPathLen == 2     \* components of a path handed to find_path
MaxData == 1        \* entries of the "data" array of a NodesResponse
MaxPages == 2       \* pages the server splits one listing into
MaxHours == 73      \* hours the client is followed after its construction

\* ------------------------------------------------- program constants ---
MAXIMUM_RETRY == 5
REFRESH_ENDPOINT_TIME == 3 * 24

\* -------------------------------------------------------------- values ---
root_id == "r"
NodeIds == {"r", "n1"}
Names == {"a"}
Tokens == {1, 2}
TokenTypes == {"bearer", "mac"}
Times == {1}
StatusCodes == {200, 201, 409, 500}

\* The phrase get_server_response looks for, as a sequence of words.
ExpiredPhrase == <<"Token", "has", "expired">>
Messages ==
    { <<"401", "Token", "has", "expired">>,
      <<"Token", "has", "not", "expired">> }

\* A response body.  kind says what the bytes are: not UTF-8, or a JSON
\* object that decodes as a MessageResponse, an O2TokenResponse or a
\* NodesResponse (and as none of the other two).
MkBody(kind, message, access_token, refresh_token, token_type, data) ==
    [kind |-> kind, message |-> message, access_token |-> access_token,
     refresh_token |-> refresh_token, token_type |-> token_type, data |-> data]

NoBody == MkBody("none", <<>>, 0, 0, "", <<>>)
NotUtf8Body == MkBody("notutf8", <<>>, 0, 0, "", <<>>)
MessageBody(m) == MkBody("message", m, 0, 0, "", <<>>)
TokenBody(a, r, t) == MkBody("token", <<>>, a, r, t, <<>>)
NodesBody(d) == MkBody("nodes", <<>>, 0, 0, "", d)

\* The answers to a create-folder request that decode: mkdir's Response
\* {id} and its ConflictResponse {info: {nodeId}}; data holds the one id.
NodeBody(id) == MkBody("node", <<>>, 0, 0, "", <<id>>)
ConflictBody(id) == MkBody("conflict", <<>>, 0, 0, "", <<id>>)

\* An AccountEndpointResponse {contentUrl, metadataUrl}; data holds the urls.
EndpointBody(u) == MkBody("endpoint", <<>>, 0, 0, "", <<u>>)

\* The answers to an upload that decode as NodeUploadResponse: the id of the
\* new node, and an md5 that is, or is not, the md5 of the data sent.
UploadedBody(id) == MkBody("uploaded", <<>>, 0, 0, "", <<id>>)
BadMd5Body(id) == MkBody("badmd5", <<>>, 0, 0, "", <<id>>)

\* A NodesResponse whose nextToken is Some: more pages follow.
MoreNodesBody(d) == MkBody("nodes_more", <<>>, 0, 0, "", d)

\* No bytes at all.
EmptyBody == MkBody("empty", <<>>, 0, 0, "", <<>>)

DataSeqs == UNION { [1..n -> NodeIds] : n \in 0..MaxData }

\* The bodies a server may send in answer to a request of kind req: bytes
\* that are not UTF-8, an error message, or the JSON the caller of that
\* request decodes.
Bodies(req) ==
    {NotUtf8Body}
    \cup { MessageBody(m) : m \in Messages }
    \cup (IF req = "token"
          THEN { TokenBody(a, r, t) : a \in Tokens, r \in Tokens, t \in TokenTypes }
          ELSE {})
    \cup (IF req = "children" THEN { NodesBody(d) : d \in DataSeqs } ELSE {})
    \cup (IF req = "upload"
          THEN { UploadedBody(id) : id \in NodeIds } \cup { BadMd5Body(id) : id \in NodeIds }
          ELSE {})
    \cup (IF req = "list"
          THEN { NodesBody(d) : d \in DataSeqs } \cup { MoreNodesBody(d) : d \in DataSeqs }
          ELSE {})
    \cup (IF req = "content" THEN {EmptyBody} ELSE {})
    \cup (IF req = "create"
          THEN { NodeBody(id) : id \in NodeIds } \cup { ConflictBody(id) : id \in NodeIds }
          ELSE {})

\* What the network hands back for one send: rest.send fails (Hyper),
\* response.read_to_end fails (Io), or a status and a body arrive.
MkResp(kind, err, status, body) ==
    [kind |-> kind, err |-> err, status |-> status, body |-> body]

NoResp == MkResp("none", "none", 0, NoBody)
TransportErrors == {"Hyper", "Io"}
Responses(req) ==
    { MkResp("transport", e, 0, NoBody) : e \in TransportErrors }
    \cup { MkResp("http", "none", s, b) : s \in StatusCodes, b \in Bodies(req) }

\* Result<(StatusCode, Vec<u8>)>.  tag is "Ok" or the Error variant; msg
\* tells the two ServerError texts apart; status and body are the payload.
MkResult(tag, msg, status, body) ==
    [tag |-> tag, msg |-> msg, status |-> status, body |-> body]

NoResult == MkResult("none", "", 0, NoBody)
Ok(status, body) == MkResult("Ok", "", status, body)
Err(tag) == MkResult(tag, "", 0, NoBody)
ErrWith(tag, msg, status, body) == MkResult(tag, msg, status, body)

IsOk(r) == r.tag = "Ok"
IsErr(r) == r.tag \notin {"Ok", "none"}


OkUnit == Ok(0, NoBody)

\* Option<NodeId>.
None == [some |-> FALSE, id |-> ""]
Some(id) == [some |-> TRUE, id |-> id]

\* ------------------------------------------------------------- state ---
VARIABLES
    authorization,  \* Client.authorization
    cache,          \* the rows of table path_cache, in insertion (rowid) order
    stack,          \* the get_server_response_with_retry calls in progress
    op,             \* the public operation in progress, and where it stands
    result,         \* what the last finished operation returned
    obs,            \* what the operation in progress has done so far
    returned,       \* the calls that returned in the step just taken
    fetched,        \* what the direct cache lookups since the last insert gave
    endpoint,       \* Client.endpoint
    now             \* the clock (time::get_time().sec), 0 at construction

vars == <<authorization, cache, stack, op, result, obs, returned, fetched,
          endpoint, now>>

\* -------------------------------------------------- refresh_endpoint ---
SecondsPerHour == 3600

\* Duration::num_hours: whole hours, truncated towards zero.
num_hours(d) ==
    IF d >= 0 THEN d \div SecondsPerHour ELSE 0 - ((0 - d) \div SecondsPerHour)

\* The test refresh_endpoint makes of record e when the clock reads t.
Fresh(e, t) == num_hours(t - e.date_last_updated) < REFRESH_ENDPOINT_TIME

\* The requests built on endpoint.metadata_url or endpoint.content_url: all
\* but the token exchanges.
UsesEndpoint(req) == req # "token"

\* ------------------------------------------ get_server_response -------
is_success(status) == status \in 200..299

\* A variant that takes every status from 400 up for a server error.
is_error_status(status) == status \in 400..599

is_server_error(status) == status \in 500..599

\* str::contains on word sequences: pat occurs in s as a contiguous run.
Contains(s, pat) ==
    \E i \in 0..(Len(s) - Len(pat)) : SubSeq(s, i + 1, i + Len(pat)) = pat

\* The body as Option<MessageResponse>: Some only for UTF-8 JSON that has a
\* "message" field.
DecodesAsMessage(body) == body.kind = "message"

get_server_response(resp) ==
    IF resp.kind = "transport" THEN Err(resp.err)
    ELSE IF is_success(resp.status) THEN Ok(resp.status, resp.body)
    ELSE IF DecodesAsMessage(resp.body) /\ Contains(resp.body.message, ExpiredPhrase)
         THEN Err("ExpiredToken")
    ELSE Ok(resp.status, resp.body)

\* decode_server_json::<T>: target names T by the kind of body that decodes.
decode_server_json(body, target) ==
    IF body.kind = "notutf8" THEN ErrWith("ResponseNotUtf8", "", 0, body)
    ELSE IF body.kind = target THEN Ok(0, body)
    ELSE Err("ResponseBadJson")

\* -------------------------------- get_server_response_with_retry ------
\* One call in progress.  req, authorize, retry_count, pc and result are
\* the call's own state; the remaining fields record what happened on the
\* wire during the call:
\*   sends         requests sent by this call
\*   sleeps        backoff sleeps taken
\*   refreshes     calls of refresh_authorization made
\*   fails         failed attempts (transport failure or 5xx response) seen
\*                 since the call began or since its last successful refresh
\*   allTransport  every send so far failed at the transport level
\*   allServer     every send so far was answered with a 5xx status
\*   answered      sends answered with neither a failure nor "expired"
\*   last          the network's answer to the send the call returned on
\*   sentTok       bearer token attached to the last send (0: none)
\*   rejTok        bearer token of the send last answered with expired-token
\*   refTok        access token in the answer to the last successful refresh
\*   sinceRefresh  sends made since the last call of refresh_authorization
\*   refRes        what the last refresh_authorization returned
NewFrame(req, authorize) ==
    [req |-> req, authorize |-> authorize, retry_count |-> 0, pc |-> "send",
     result |-> NoResult, sends |-> 0, sleeps |-> 0, refreshes |-> 0,
     fails |-> 0, allTransport |-> TRUE, allServer |-> TRUE, answered |-> 0,
     last |-> NoResp, sentTok |-> 0, stale |-> FALSE,
     backoffAt |-> 0, ceiling |-> 0, underflow |-> FALSE,
     rejTok |-> 0, refTok |-> 0, sinceRefresh |-> 0, refRes |-> NoResult]

\* The token put on the request (rest_copy.authorization(...)).
BearerToken(authorize, auth) == IF authorize THEN auth.access_token ELSE 0

\* "if retry_count > 0": a backoff sleep precedes this send.
NeedsBackoff(retry_count) == retry_count > 0

\* cmp::min
Min(a, b) == IF a <= b THEN a ELSE b

\* A variant of the exponent that leaves out the "- 1".
backoff_exponent_late(retry_count) == Min(retry_count, 8)

\* "cmp::min(retry_count - 1, 8)", retry_count being a u32: at 0 the
\* subtraction wraps to 2^32 - 1 where it does not panic, and the minimum
\* is 8.
backoff_exponent(retry_count) ==
    IF retry_count = 0 THEN 8 ELSE Min(retry_count - 1, 8)

\* "1000 * (1 << (cmp::min(retry_count - 1, 8)))", the upper end handed to
\* gen_range; 256000 at most, far below the width of the type.
backoff_ceiling(retry_count) == 1000 * 2 ^ backoff_exponent(retry_count)

\* Rng::gen_range(low, high): any integer from low up to, not including, high.
gen_range(low, high) == low .. (high - 1)

\* A variant of the ceiling that lets one more attempt through.
RetriesExhaustedLate(retry_count) == retry_count > MAXIMUM_RETRY

\* "if retry_count >= MAXIMUM_RETRY { return Err(..) }"
RetriesExhausted(retry_count) == retry_count >= MAXIMUM_RETRY

\* A variant that hands the last 5xx response back as Ok.
ServerErrorAsOk(status, body) == Ok(status, body)

\* The error returned when a 5xx response exhausts the retries.
ServerErrorResult(status, body) == ErrWith("ServerError", "status", status, body)

\* The error returned when a call without a token is told it has expired.
NoTokenResult == ErrWith("ServerError", "no_token", 0, NoBody)

\* On the wire: the expired-token payload is an answer without a 2xx status
\* whose JSON message holds the phrase; a failed attempt is a transport
\* failure or a 5xx answer that is no expired-token payload.
ExpiredPayload(resp) ==
    /\ resp.kind = "http"
    /\ resp.status \notin 200..299
    /\ resp.body.kind = "message"
    /\ Contains(resp.body.message, ExpiredPhrase)

FailedAttempt(resp) ==
    \/ resp.kind = "transport"
    \/ resp.kind = "http" /\ resp.status \in 500..599 /\ ~ExpiredPayload(resp)

\* Bookkeeping of one send by frame f with token tok answered by resp.
Observe(f, tok, resp) ==
    [f EXCEPT !.sends = @ + 1,
              !.sleeps = @ + (IF NeedsBackoff(f.retry_count) THEN 1 ELSE 0),
              !.fails = @ + (IF FailedAttempt(resp) THEN 1 ELSE 0),
              !.allTransport = @ /\ resp.kind = "transport",
              !.allServer = @ /\ resp.kind = "http" /\ resp.status \in 500..599,
              !.answered = @ + (IF FailedAttempt(resp) \/ ExpiredPayload(resp)
                                THEN 0 ELSE 1),
              !.last = resp,
              !.sentTok = tok,
              !.stale = @ \/ (UsesEndpoint(f.req) /\ ~Fresh(endpoint, now)),
              !.backoffAt = f.retry_count,
              !.ceiling = IF NeedsBackoff(f.retry_count)
                          THEN backoff_ceiling(f.retry_count) ELSE 0,
              !.underflow = @ \/ (NeedsBackoff(f.retry_count) /\ f.retry_count = 0),
              !.sinceRefresh = @ + 1]

\* A failed attempt is counted: give up with res, or go round again.
CountFailure(g, res) ==
    IF RetriesExhausted(g.retry_count + 1)
    THEN [g EXCEPT !.retry_count = @ + 1, !.pc = "ret", !.result = res]
    ELSE [g EXCEPT !.retry_count = @ + 1, !.last = NoResp]

\* A variant that takes "expired" on a call without a token for one more
\* failed attempt.
ExpiredWithoutTokenCounted(g) == CountFailure(g, NoTokenResult)

\* The else branch of the Err(Error::ExpiredToken) arm: the call had no
\* token on it and returns at once.
ExpiredWithoutToken(g) == [g EXCEPT !.pc = "ret", !.result = NoTokenResult]

\* One iteration of the loop of get_server_response_with_retry: the frame
\* after sending with token tok and getting resp.  pc "refresh" means the
\* call now stands in refresh_authorization.
RetryStep(f, tok, resp) ==
    LET g == Observe(f, tok, resp)
        r == get_server_response(resp)
    IN  IF r.tag = "ExpiredToken" THEN
            IF f.authorize
            THEN [g EXCEPT !.pc = "refresh", !.refreshes = @ + 1, !.rejTok = tok,
                           !.sinceRefresh = 0, !.last = NoResp]
            ELSE ExpiredWithoutToken(g)
        ELSE IF IsErr(r) THEN CountFailure(g, r)
        ELSE IF is_server_error(r.status)
             THEN CountFailure(g, ServerErrorResult(r.status, r.body))
        ELSE [g EXCEPT !.pc = "ret", !.result = Ok(r.status, r.body)]

\* ------------------------------------------- refresh_authorization ----
\* A variant that stores the two tokens of the response the wrong way round.
NewAuthorizationSwapped(body, t) ==
    [access_token |-> body.refresh_token, refresh_token |-> body.access_token,
     token_type |-> body.token_type, date_last_updated |-> t]

\* The Authorization built from a decoded O2TokenResponse at time t.
NewAuthorization(body, t) ==
    [access_token |-> body.access_token, refresh_token |-> body.refresh_token,
     token_type |-> body.token_type, date_last_updated |-> t]

\* A variant of refresh_authorization that forgets the stored tokens when
\* the token exchange is turned down.
RefreshFinishClearing(auth, res, t, written) ==
    IF IsOk(res) /\ res.status = 200 /\ IsOk(decode_server_json(res.body, "token"))
    THEN [auth |-> [access_token |-> res.body.access_token,
                    refresh_token |-> res.body.refresh_token,
                    token_type |-> res.body.token_type, date_last_updated |-> t],
          result |-> IF written THEN OkUnit ELSE Err("IoFile")]
    ELSE [auth |-> [auth EXCEPT !.access_token = 0, !.refresh_token = 0],
          result |-> IF IsErr(res) THEN res
                     ELSE ErrWith("UnknownServerError", "", res.status, res.body)]

\* A variant of refresh_authorization that lets a token exchange that was
\* turned down pass for a refresh.
RefreshFinishLenient(auth, res, t, written) ==
    IF IsErr(res) THEN [auth |-> auth, result |-> res]
    ELSE IF res.status = 200 /\ IsOk(decode_server_json(res.body, "token"))
    THEN [auth |-> NewAuthorization(res.body, t),
          result |-> IF written THEN OkUnit ELSE Err("IoFile")]
    ELSE [auth |-> auth, result |-> OkUnit]

\* refresh_authorization after its token request returned res: the stored
\* authorization and the Result<()> of the refresh.  t is what the clock
\* reads, written says whether write_json_file succeeded.
RefreshFinish(auth, res, t, written) ==
    IF IsErr(res) THEN [auth |-> auth, result |-> res]
    ELSE IF res.status = 200 THEN
        LET d == decode_server_json(res.body, "token")
        IN  IF IsErr(d) THEN [auth |-> auth, result |-> d]
            ELSE [auth |-> NewAuthorization(res.body, t),
                  result |-> IF written THEN OkUnit ELSE Err("IoFile")]
    ELSE [auth |-> auth,
          result |-> ErrWith("UnknownServerError", "", res.status, res.body)]

\* The caller of refresh_authorization (the Err(Error::ExpiredToken) arm)
\* once the refresh returned res, whose token request was answered by resp.
AfterRefresh(f, res, resp) ==
    IF IsErr(res)
    THEN [f EXCEPT !.pc = "ret", !.result = res, !.refRes = res]
    ELSE [f EXCEPT !.pc = "send", !.retry_count = 0, !.refRes = res,
                   !.fails = 0, !.refTok = resp.body.access_token]

\* ------------------------------------------------------ node cache ----
Row(parent, name, id) == [parent |-> parent, name |-> name, id |-> id]

\* INSERT INTO path_cache (parent, name, id) VALUES (?,?,?)
insert_into_node_cache(c, parent, name, id) == Append(c, Row(parent, name, id))

\* The rows SELECT id FROM path_cache WHERE parent=? AND name=? yields.
Matching(c, parent, name) ==
    { i \in 1..Len(c) : c[i].parent = parent /\ c[i].name = name }

\* A variant of the lookup whose WHERE clause leaves out the parent.
fetch_by_name_only(c, parent, name) ==
    IF { i \in 1..Len(c) : c[i].name = name } = {} THEN {None}
    ELSE { Some(c[i].id) : i \in { k \in 1..Len(c) : c[k].name = name } }

\* fetch_from_node_cache: query_row takes the first row the query yields.
\* The query has no ORDER BY, so which matching row comes first is up to the
\* database: every matching row is a possible result.
fetch_from_node_cache(c, parent, name) ==
    IF Matching(c, parent, name) = {} THEN {None}
    ELSE { Some(c[i].id) : i \in Matching(c, parent, name) }

\* ------------------------------------------------------ operations ----
MkOp(kind, dir, name, rest) ==
    [kind |-> kind, dir |-> dir, name |-> name, rest |-> rest]

IdleOp == MkOp("idle", "", "", <<>>)

\* Result<Option<NodeId>>, Result<NodeId> or Result<()> of a public method.
MkReturn(kind, res, value) == [kind |-> kind, res |-> res, value |-> value]

NoReturn == MkReturn("none", NoResult, None)

Idle == stack = <<>> /\ op.kind = "idle"

UnknownServerError(r) == ErrWith("UnknownServerError", "", r.status, r.body)

\* std::path::Component, as Path::components() yields them: RootDir and
\* CurDir only come first; a Normal component has a name or is no UTF-8.
\* The paths tried end at their first component the walk does not support,
\* since the walk returns there and never looks at what follows.
Comp(kind, name) == [kind |-> kind, name |-> name]

Components ==
    {Comp("RootDir", ""), Comp("CurDir", ""), Comp("ParentDir", ""),
     Comp("NotUtf8", "")}
    \cup { Comp("Normal", n) : n \in Names }

Paths ==
    { p \in UNION { [1..n -> Components] : n \in 0..MaxPathLen } :
        /\ \A i \in 2..Len(p) : p[i].kind \notin {"RootDir", "CurDir"}
        /\ \A i \in 1..(Len(p) - 1) : p[i].kind \notin {"ParentDir", "NotUtf8"} }

\* The ids the rows of c alone lead to from start along path: the names
\* of the path in order, and from the nodes in S the children the rows give
\* for each name in turn.
IsNormal(p) == p.kind = "Normal"

NamesOf(path) ==
    [ j \in 1..Len(SelectSeq(path, IsNormal)) |-> SelectSeq(path, IsNormal)[j].name ]

Supported(path) ==
    \A i \in 1..Len(path) : path[i].kind \in {"RootDir", "CurDir", "Normal"}

StartOf(start, path) ==
    IF path # <<>> /\ path[1].kind = "RootDir" THEN root_id ELSE start

RECURSIVE Children(_, _, _)
Children(c, S, names) ==
    IF names = <<>> THEN S
    ELSE Children(c,
                  { c[i].id : i \in { k \in 1..Len(c) :
                                        c[k].parent \in S /\ c[k].name = Head(names) } },
                  Tail(names))

CachedIds(c, start, path) ==
    IF Supported(path) THEN Children(c, {StartOf(start, path)}, NamesOf(path)) ELSE {}

\* What the operation in progress has done: whether it sent a request,
\* calls of get_server_response_with_retry made, cache lookups that missed,
\* rows inserted, create-folder requests made, the key (parent, name) it
\* last worked on; and, of the
\* moment it was called, the number of names in its path, the number of
\* rows in the cache, the ids the cache alone resolved the path to, and what
\* the operation finished just before it did on the same key (after: its
\* kind, or "notfound"; expect: the id it returned).
NewObs(kind, start, path, c) ==
    [kind |-> kind, depth |-> Len(NamesOf(path)), rows0 |-> Len(c),
     cached |-> CachedIds(c, start, path),
     sent |-> FALSE, calls |-> 0, misses |-> 0, inserts |-> 0,
     parent |-> "", name |-> "", start |-> "", path |-> <<>>,
     supported |-> Supported(path), creates |-> 0,
     after |-> "none", expect |-> None]

\* The operations on one key that tell its child when they return Ok.
KeyOps == {"find_child", "mkdir", "upload"}

\* What the operation that just finished tells about the key (parent, name).
Before(parent, name) ==
    IF obs.parent = parent /\ obs.name = name /\ IsOk(result.res)
    THEN IF result.kind \in KeyOps /\ result.value.some
         THEN [after |-> result.kind, expect |-> result.value]
         ELSE IF result.kind \in {"find_child", "find_path"} /\ ~result.value.some
         THEN [after |-> "notfound", expect |-> None]
         ELSE [after |-> "none", expect |-> None]
    ELSE [after |-> "none", expect |-> None]

\* What the operation that just finished tells about path from start.
BeforePath(start, path) ==
    IF result.kind = "mkdir_all" /\ obs.start = start /\ obs.path = path
         /\ IsOk(result.res)
    THEN [after |-> "mkdir_all", expect |-> result.value]
    ELSE [after |-> "none", expect |-> None]

\* The observation of mkdir_all(start, path) as it starts.
PathObs(kind, start, path) ==
    [NewObs(kind, start, path, cache)
        EXCEPT !.start = start, !.path = path,
               !.after = BeforePath(start, path).after,
               !.expect = BeforePath(start, path).expect]

\* The observation of an operation on the key (parent, name) as it starts.
KeyObs(kind, parent, name) ==
    [NewObs(kind, parent, <<[kind |-> "Normal", name |-> name]>>, cache)
        EXCEPT !.parent = parent, !.name = name,
               !.after = Before(parent, name).after,
               !.expect = Before(parent, name).expect]

\* Where a walk over path components stands: "done" at dir, "bad" (BadPath),
\* or "miss": (dir, name) is not cached and rest is still to walk.
Walked(status, dir, name, rest) ==
    [status |-> status, dir |-> dir, name |-> name, rest |-> rest]

\* The loop of find_path from current_dir cur over comps, as far as the
\* cache c answers find_child.
RECURSIVE WalkPath(_, _, _)
WalkPath(c, cur, comps) ==
    IF comps = <<>> THEN {Walked("done", cur, "", <<>>)}
    ELSE LET p == Head(comps) IN
         CASE p.kind = "RootDir" -> WalkPath(c, root_id, Tail(comps))
           [] p.kind = "CurDir" -> WalkPath(c, cur, Tail(comps))
           [] p.kind = "Normal" ->
                UNION { IF hit.some
                        THEN WalkPath(c, hit.id, Tail(comps))
                        ELSE {Walked("miss", cur, p.name, Tail(comps))}
                        : hit \in fetch_from_node_cache(c, cur, p.name) }
           [] OTHER -> {Walked("bad", cur, "", <<>>)}

\* A variant of find_child that returns the first match without caching it.
find_child_uncached(r) ==
    IF IsOk(r) /\ r.status = 200 /\ r.body.kind = "nodes" /\ Len(r.body.data) > 0
    THEN [res |-> OkUnit, value |-> Some(r.body.data[1]), insert |-> FALSE]
    ELSE [res |-> IF IsErr(r) THEN r ELSE OkUnit, value |-> None, insert |-> FALSE]

\* A variant of find_child that reports a lookup without matches as an error.
find_child_strict(r) ==
    IF IsOk(r) /\ r.status = 200 /\ r.body.kind = "nodes" /\ Len(r.body.data) > 0
    THEN [res |-> OkUnit, value |-> Some(r.body.data[1]), insert |-> TRUE]
    ELSE [res |-> IF IsErr(r) THEN r ELSE ErrWith("UnknownServerError", "", r.status, r.body),
          value |-> None, insert |-> FALSE]

\* find_child after its lookup request returned r: the Result, the
\* Option<NodeId> and whether a row (parent, name, value.id) is inserted.
find_child_finish(r) ==
    IF IsErr(r) THEN [res |-> r, value |-> None, insert |-> FALSE]
    ELSE IF r.status = 200 THEN
        LET d == decode_server_json(r.body, "nodes")
        IN  IF IsErr(d) THEN [res |-> d, value |-> None, insert |-> FALSE]
            ELSE IF Len(r.body.data) = 0
                 THEN [res |-> OkUnit, value |-> None, insert |-> FALSE]
            ELSE [res |-> OkUnit, value |-> Some(r.body.data[1]), insert |-> TRUE]
    ELSE [res |-> UnknownServerError(r), value |-> None, insert |-> FALSE]

\* A variant of mkdir that takes a conflict for a failure.
mkdir_conflict_fails(r) ==
    IF IsOk(r) /\ r.status = 201 /\ r.body.kind = "node"
    THEN [res |-> OkUnit, value |-> Some(r.body.data[1]), insert |-> TRUE]
    ELSE [res |-> IF IsErr(r) THEN r ELSE Err("NodeExists"),
          value |-> None, insert |-> FALSE]

\* A variant of mkdir that does not cache the folder it made or found.
mkdir_uncached(r) ==
    IF IsOk(r) /\ r.status \in {201, 409} /\ r.body.kind \in {"node", "conflict"}
    THEN [res |-> OkUnit, value |-> Some(r.body.data[1]), insert |-> FALSE]
    ELSE [res |-> IF IsErr(r) THEN r ELSE Err("ResponseBadJson"),
          value |-> None, insert |-> FALSE]

\* mkdir after its create-folder request returned r: the Result, the NodeId
\* and whether a row (parent, name, value.id) is inserted.
mkdir_finish(r) ==
    IF IsErr(r) THEN [res |-> r, value |-> None, insert |-> FALSE]
    ELSE IF r.status = 201 THEN
        LET d == decode_server_json(r.body, "node")
        IN  IF IsErr(d) THEN [res |-> d, value |-> None, insert |-> FALSE]
            ELSE [res |-> OkUnit, value |-> Some(r.body.data[1]), insert |-> TRUE]
    ELSE IF r.status = 409 THEN
        LET d == decode_server_json(r.body, "conflict")
        IN  IF IsErr(d) THEN [res |-> d, value |-> None, insert |-> FALSE]
            ELSE [res |-> OkUnit, value |-> Some(r.body.data[1]), insert |-> TRUE]
    ELSE [res |-> UnknownServerError(r), value |-> None, insert |-> FALSE]

\* The request an operation sends for a key its cache lookup missed:
\* find_child and find_path look the child up, mkdir and mkdir_all create it.
Creates(kind) == kind \in {"mkdir", "mkdir_all"}

RequestOf(kind) == IF Creates(kind) THEN "create" ELSE "children"

\* What the operation makes of the answer r to that request.
KeyFinish(kind, r) == IF Creates(kind) THEN mkdir_finish(r) ELSE find_child_finish(r)

\* rm once its request returned r.
rm_finish(r) ==
    IF IsErr(r) THEN r
    ELSE IF r.status = 200 THEN OkUnit
    ELSE UnknownServerError(r)

Missed(w) == IF w.status = "miss" THEN 1 ELSE 0

\* The operation kind goes on from walk outcome w, having done o so far: it
\* returns, or sends its request for the missing (w.dir, w.name).
Proceed(kind, w, o) ==
    /\ obs' = [o EXCEPT !.calls = @ + Missed(w), !.misses = @ + Missed(w),
                        !.creates = @ + (IF Creates(kind) THEN Missed(w) ELSE 0),
                        !.parent = IF w.status = "miss" THEN w.dir ELSE @,
                        !.name = IF w.status = "miss" THEN w.name ELSE @]
    /\ IF w.status = "miss"
       THEN /\ op' = MkOp(kind, w.dir, w.name, w.rest)
            /\ stack' = <<NewFrame(RequestOf(kind), TRUE)>>
            /\ result' = NoReturn
       ELSE /\ op' = IdleOp
            /\ stack' = <<>>
            /\ result' = IF w.status = "bad"
                         THEN MkReturn(kind, Err("BadPath"), None)
                         ELSE MkReturn(kind, OkUnit, Some(w.dir))

\* The operation returns ret.
Finish(ret, o) ==
    /\ op' = IdleOp
    /\ stack' = <<>>
    /\ result' = ret
    /\ obs' = o

\* The request of rm has returned r.
RmReturn(r, o) ==
    /\ cache' = cache
    /\ Finish(MkReturn("rm", rm_finish(r), None), o)

\* The lookup request of find_child (the create-folder request of mkdir)
\* has returned r: find_child (mkdir) finishes, and find_path (mkdir_all)
\* walks on from the child it found (made).
FindReturn(r, o) ==
    LET fin == KeyFinish(op.kind, r)
    IN  IF fin.insert
        THEN /\ Len(cache) < MaxRows
             /\ cache' = insert_into_node_cache(cache, op.dir, op.name, fin.value.id)
             /\ \E w \in WalkPath(cache', fin.value.id, op.rest) :
                    Proceed(op.kind, w, [o EXCEPT !.inserts = @ + 1])
        ELSE /\ cache' = cache
             /\ Finish(MkReturn(op.kind, fin.res, fin.value), o)

\* A variant of upload that absorbs a conflict the way mkdir does.
upload_conflict_ok(r) ==
    IF IsOk(r) /\ r.status \in {201, 409}
    THEN [res |-> OkUnit, value |-> Some(root_id), insert |-> TRUE, panic |-> FALSE]
    ELSE [res |-> IF IsErr(r) THEN r ELSE ErrWith("UnknownServerError", "", r.status, r.body),
          value |-> None, insert |-> FALSE, panic |-> FALSE]

\* A variant of upload that caches the node of every answer that names one.
upload_lenient(r) ==
    IF IsOk(r) /\ r.body.kind = "uploaded"
    THEN [res |-> OkUnit, value |-> Some(r.body.data[1]), insert |-> TRUE, panic |-> FALSE]
    ELSE [res |-> IF IsErr(r) THEN r ELSE Err("NodeExists"),
          value |-> None, insert |-> FALSE, panic |-> FALSE]

\* upload after its request returned r: the Result, the NodeId, whether a
\* row (parent, name, value.id) is inserted, and whether the client panics
\* (the md5 the server reports is not that of the data).
upload_finish(r) ==
    IF IsErr(r) THEN [res |-> r, value |-> None, insert |-> FALSE, panic |-> FALSE]
    ELSE IF r.status = 201 THEN
        IF r.body.kind = "badmd5"
        THEN [res |-> Err("panic"), value |-> None, insert |-> FALSE, panic |-> TRUE]
        ELSE LET d == decode_server_json(r.body, "uploaded")
             IN  IF IsErr(d)
                 THEN [res |-> d, value |-> None, insert |-> FALSE, panic |-> FALSE]
                 ELSE [res |-> OkUnit, value |-> Some(r.body.data[1]),
                       insert |-> TRUE, panic |-> FALSE]
    ELSE IF r.status = 409
         THEN [res |-> Err("NodeExists"), value |-> None, insert |-> FALSE, panic |-> FALSE]
    ELSE [res |-> UnknownServerError(r), value |-> None, insert |-> FALSE, panic |-> FALSE]

\* The request of upload has returned r.  A panic ends the client.
UploadReturn(r, o) ==
    LET fin == upload_finish(r)
    IN  IF fin.panic
        THEN /\ cache' = cache
             /\ op' = MkOp("panicked", "", "", <<>>)
             /\ stack' = <<>>
             /\ result' = MkReturn("upload", fin.res, None)
             /\ obs' = o
        ELSE IF fin.insert
        THEN /\ Len(cache) < MaxRows
             /\ cache' = insert_into_node_cache(cache, op.dir, op.name, fin.value.id)
             /\ Finish(MkReturn("upload", fin.res, fin.value),
                       [o EXCEPT !.inserts = @ + 1])
        ELSE /\ cache' = cache
             /\ Finish(MkReturn("upload", fin.res, fin.value), o)

\* A variant of download that hands back no bytes when the server refuses.
download_lenient(r) ==
    IF IsErr(r) THEN r
    ELSE IF r.status = 200 THEN Ok(200, r.body)
    ELSE Ok(200, EmptyBody)

\* download once its request returned r: Ok carries the bytes.
download_finish(r) ==
    IF IsErr(r) THEN r
    ELSE IF r.status = 200 THEN Ok(200, r.body)
    ELSE UnknownServerError(r)

DownloadReturn(r, o) ==
    /\ cache' = cache
    /\ Finish(MkReturn("download", download_finish(r), None), o)

\* One round of the loop of ls, ids being the ids pushed so far, once its
\* request returned r: the Result, the ids, and whether the loop goes round
\* again (nextToken is Some).
ls_step(r, ids) ==
    IF IsErr(r) THEN [res |-> r, ids |-> ids, more |-> FALSE]
    ELSE IF r.status = 200 THEN
        IF r.body.kind \in {"nodes", "nodes_more"}
        THEN [res |-> OkUnit, ids |-> ids \o r.body.data,
              more |-> r.body.kind = "nodes_more"]
        ELSE [res |-> decode_server_json(r.body, "nodes"), ids |-> ids, more |-> FALSE]
    ELSE [res |-> UnknownServerError(r), ids |-> ids, more |-> FALSE]

\* A request of ls has returned r: ls asks for the next page or returns.
\* The ids pushed so far are kept in op.rest.
LsReturn(r, o) ==
    LET step == ls_step(r, op.rest)
    IN  /\ cache' = cache
        /\ IF step.more
           THEN /\ op' = [op EXCEPT !.rest = step.ids]
                /\ stack' = <<NewFrame("list", TRUE)>>
                /\ result' = NoReturn
                /\ obs' = [o EXCEPT !.calls = @ + 1]
           ELSE Finish(MkReturn("ls", IF IsOk(step.res) THEN Ok(0, NodesBody(step.ids))
                                      ELSE step.res, None), o)

\* The call made by the operation in progress has returned r.
OpReturn(r, o) ==
    CASE op.kind = "rm" -> RmReturn(r, o)
      [] op.kind = "upload" -> UploadReturn(r, o)
      [] op.kind = "download" -> DownloadReturn(r, o)
      [] op.kind = "ls" -> LsReturn(r, o)
      [] OTHER -> FindReturn(r, o)

\* ------------------------------------------------------- the steps ----
Top == stack[Len(stack)]
SetTop(f) == [stack EXCEPT ![Len(stack)] = f]

\* The running call sends its request once more, the server answers with
\* one of answers, and the client runs on to its next
\* send or to the end of the operation: round the loop again, into
\* refresh_authorization, back from it (the clock reads t, the write of
\* authorization.json succeeds or not), or back to the operation.
SendTo(answers, cap) ==
    /\ stack # <<>>
    /\ Top.sends < cap
    /\ \E resp \in answers :
        LET f == RetryStep(Top, BearerToken(Top.authorize, authorization), resp)
            o == [obs EXCEPT !.sent = TRUE]
        IN  CASE f.pc = "send" ->
                    /\ stack' = SetTop(f)
                    /\ returned' = <<>>
                    /\ obs' = o
                    /\ UNCHANGED <<authorization, cache, op, result>>
              [] f.pc = "refresh" ->
                    /\ stack' = <<f, NewFrame("token", FALSE)>>
                    /\ returned' = <<>>
                    /\ obs' = o
                    /\ UNCHANGED <<authorization, cache, op, result>>
              [] f.pc = "ret" /\ Len(stack) = 1 ->
                    /\ returned' = <<f>>
                    /\ authorization' = authorization
                    /\ OpReturn(f.result, o)
              [] f.pc = "ret" /\ Len(stack) = 2 ->
                    \E t \in Times, written \in BOOLEAN :
                        LET fin == RefreshFinish(authorization, f.result, t, written)
                            g == AfterRefresh(stack[1], fin.result, resp)
                        IN  /\ authorization' = fin.auth
                            /\ IF g.pc = "ret"
                               THEN /\ returned' = <<f, g>>
                                    /\ OpReturn(g.result, o)
                               ELSE /\ returned' = <<f>>
                                    /\ stack' = <<g>>
                                    /\ obs' = o
                                    /\ UNCHANGED <<cache, op, result>>
    /\ UNCHANGED <<fetched, endpoint, now>>

\* A server whose answers never carry the expired-token payload.
LiveAnswer(f) == { resp \in Responses(f.req) : ~ExpiredPayload(resp) }

\* A server that is up and takes the token: no attempt fails.
Answered(f) == { resp \in LiveAnswer(f) : ~FailedAttempt(resp) }

\* A server that never says "expired" and splits no listing into more than
\* MaxPages pages.
PagedAnswer(f) ==
    { resp \in LiveAnswer(f) : resp.body.kind = "nodes_more" => obs.calls < MaxPages }

\* Any server (that has call f refresh its token at most MaxExpiry times).
AnyAnswer(f) == IF f.refreshes < MaxExpiry THEN Responses(f.req) ELSE LiveAnswer(f)

\* The server that answers every authorized request with the expired-token
\* payload while its token endpoint answers 200 with a fresh token pair.
ExpiredAnswer(f) ==
    { resp \in Responses(f.req) :
        IF f.authorize
        THEN ExpiredPayload(resp)
        ELSE resp.kind = "http" /\ resp.status = 200 /\ resp.body.kind = "token" }

\* Any server, as far as the retry loop can tell its answers apart: one
\* body of each class.
FewBodies(req) ==
    {NotUtf8Body, MessageBody(<<"401", "Token", "has", "expired">>)}
    \cup (IF req = "token" THEN {TokenBody(2, 2, "bearer")} ELSE {})

FewAnswer(f) ==
    { resp \in AnyAnswer(f) : resp.kind = "http" => resp.body \in FewBodies(f.req) }

Send == SendTo(AnyAnswer(Top), MaxSends)

SendFew == SendTo(FewAnswer(Top), MaxSends)

SendAnswered == SendTo(Answered(Top), MaxSends)

SendExpired == SendTo(ExpiredAnswer(Top), MaxLoop)

SendLive == SendTo(PagedAnswer(Top), MaxSends)

\* rm(node): one authorized PUT to trash/<node>, whatever the node.
Call_rm ==
    /\ Idle
    /\ op' = MkOp("rm", "", "", <<>>)
    /\ obs' = [NewObs("rm", "", <<>>, cache) EXCEPT !.calls = 1]
    /\ stack' = <<NewFrame("trash", TRUE)>>
    /\ result' = NoReturn
    /\ returned' = <<>>
    /\ UNCHANGED <<authorization, cache, fetched, endpoint, now>>

\* find_child(parent, name)
Call_find_child ==
    /\ Idle
    /\ \E parent \in NodeIds, name \in Names :
       \E w \in WalkPath(cache, parent, <<Comp("Normal", name)>>) :
        Proceed("find_child", w, KeyObs("find_child", parent, name))
    /\ returned' = <<>>
    /\ UNCHANGED <<authorization, cache, fetched, endpoint, now>>

\* find_path(parent, path); parent None is the root.
Call_find_path ==
    /\ Idle
    /\ \E parent \in NodeIds, path \in Paths :
       \E w \in WalkPath(cache, parent, path) :
        Proceed("find_path", w, NewObs("find_path", parent, path, cache))
    /\ returned' = <<>>
    /\ UNCHANGED <<authorization, cache, fetched, endpoint, now>>

\* mkdir(parent, name)
Call_mkdir ==
    /\ Idle
    /\ \E parent \in NodeIds, name \in Names :
       \E w \in WalkPath(cache, parent, <<Comp("Normal", name)>>) :
        Proceed("mkdir", w, KeyObs("mkdir", parent, name))
    /\ returned' = <<>>
    /\ UNCHANGED <<authorization, cache, fetched, endpoint, now>>

\* mkdir_all(parent, path); parent None is the root.
Call_mkdir_all ==
    /\ Idle
    /\ \E parent \in NodeIds, path \in Paths :
       \E w \in WalkPath(cache, parent, path) :
        Proceed("mkdir_all", w, PathObs("mkdir_all", parent, path))
    /\ returned' = <<>>
    /\ UNCHANGED <<authorization, cache, fetched, endpoint, now>>

\* upload(parent, name, data, content_type): one authorized POST; the data
\* show only in whether the md5 the server reports is theirs.
Call_upload ==
    /\ Idle
    /\ \E parent \in NodeIds, name \in Names :
        /\ op' = MkOp("upload", parent, name, <<>>)
        /\ obs' = [KeyObs("upload", parent, name) EXCEPT !.calls = 1]
    /\ stack' = <<NewFrame("upload", TRUE)>>
    /\ result' = NoReturn
    /\ returned' = <<>>
    /\ UNCHANGED <<authorization, cache, fetched, endpoint, now>>

\* ls(parent): the first page is asked for.
Call_ls ==
    /\ Idle
    /\ \E parent \in NodeIds :
        /\ op' = MkOp("ls", parent, "", <<>>)
        /\ obs' = [NewObs("ls", parent, <<>>, cache) EXCEPT !.calls = 1]
    /\ stack' = <<NewFrame("list", TRUE)>>
    /\ result' = NoReturn
    /\ returned' = <<>>
    /\ UNCHANGED <<authorization, cache, fetched, endpoint, now>>

\* download(id)
Call_download ==
    /\ Idle
    /\ \E id \in NodeIds :
        /\ op' = MkOp("download", id, "", <<>>)
        /\ obs' = [NewObs("download", id, <<>>, cache) EXCEPT !.calls = 1]
    /\ stack' = <<NewFrame("content", TRUE)>>
    /\ result' = NoReturn
    /\ returned' = <<>>
    /\ UNCHANGED <<authorization, cache, fetched, endpoint, now>>

\* --- the cache on its own ---
NoFetch ==
    [parent |-> "", name |-> "", value |-> None, valid |-> FALSE,
     again |-> FALSE, before |-> None]

\* insert_into_node_cache called with any arguments.
Insert ==
    /\ Idle
    /\ Len(cache) < MaxRows
    /\ \E parent \in NodeIds, name \in Names, id \in NodeIds :
        cache' = insert_into_node_cache(cache, parent, name, id)
    /\ fetched' = NoFetch
    /\ UNCHANGED <<authorization, stack, op, result, obs, returned, endpoint, now>>

\* fetch_from_node_cache called with any arguments: fetched tells the key
\* and the value returned, and whether the lookup before it (with no insert
\* in between) was for the same key, and what that one returned.
Fetch ==
    /\ Idle
    /\ \E parent \in NodeIds, name \in Names :
       \E v \in fetch_from_node_cache(cache, parent, name) :
        LET again == fetched.valid /\ fetched.parent = parent /\ fetched.name = name
        IN  fetched' = [parent |-> parent, name |-> name, value |-> v, valid |-> TRUE,
                        again |-> again,
                        before |-> IF again THEN fetched.value ELSE None]
    /\ UNCHANGED <<authorization, cache, stack, op, result, obs, returned,
                   endpoint, now>>

\* --------------------------------------------------- specifications ---
\* The Endpoint record with the urls of answer u, stamped t.
MkEndpoint(u, t) == [content_url |-> u, metadata_url |-> u, date_last_updated |-> t]

\* refresh_endpoint on record e when the clock reads t, r being what the
\* GET of the account endpoint returns if it is made: the Result, the
\* record afterwards and whether the request was made.
refresh_endpoint(e, t, r) ==
    IF Fresh(e, t) THEN [res |-> OkUnit, endpoint |-> e, request |-> FALSE]
    ELSE IF IsErr(r) THEN [res |-> r, endpoint |-> e, request |-> TRUE]
    ELSE IF r.status = 200 THEN
        LET d == decode_server_json(r.body, "endpoint")
        IN  IF IsErr(d) THEN [res |-> d, endpoint |-> e, request |-> TRUE]
            ELSE [res |-> OkUnit, endpoint |-> MkEndpoint(r.body.data[1], t),
                  request |-> TRUE]
    ELSE [res |-> UnknownServerError(r), endpoint |-> e, request |-> TRUE]

\* Time passes while no operation runs.
Jumps == {SecondsPerHour \div 2, 24 * SecondsPerHour}

Tick ==
    /\ Idle
    /\ \E d \in Jumps :
        /\ now + d <= MaxHours * SecondsPerHour
        /\ now' = now + d
    /\ UNCHANGED <<authorization, cache, stack, op, result, obs, returned, fetched,
                   endpoint>>

\* The client after Client::new, apart from its endpoint: authorized (the
\* access token is not empty), no operation running.
InitClient ==
    /\ authorization = [access_token |-> 1, refresh_token |-> 1,
                        token_type |-> "bearer", date_last_updated |-> 0]
    /\ cache = <<>>
    /\ stack = <<>>
    /\ op = IdleOp
    /\ result = NoReturn
    /\ obs = NewObs("none", "", <<>>, <<>>)
    /\ returned = <<>>
    /\ fetched = NoFetch

\* After Client::new: authorized (the access token is not empty), the
\* endpoint fetched and stamped during construction, no operation running.
Init ==
    /\ now = 0
    /\ endpoint = MkEndpoint("u1", 0)
    /\ InitClient

\* The urls the account endpoint may name, and the records endpoint.json
\* may hold when the client is constructed: none (the record from scratch),
\* or one written a day, a second less than 72 hours, or 72 hours before.
Urls == {"u1", "u2"}
LoadTimes == {0 - 24 * SecondsPerHour, 1 - REFRESH_ENDPOINT_TIME * SecondsPerHour,
              0 - REFRESH_ENDPOINT_TIME * SecondsPerHour}
Loaded ==
    { MkEndpoint(u, t) : u \in Urls, t \in LoadTimes }
    \cup { MkEndpoint("", 0 - (MaxHours + REFRESH_ENDPOINT_TIME) * SecondsPerHour) }

\* After Client::new, whatever endpoint.json held: the constructor has
\* called refresh_endpoint, and its GET, if made, was answered.
InitEndpoint ==
    /\ now = 0
    /\ \E e \in Loaded, u \in Urls :
        LET fin == refresh_endpoint(e, 0, Ok(200, EndpointBody(u)))
        IN  /\ IsOk(fin.res)
            /\ endpoint = fin.endpoint
    /\ InitClient

\* The path resolver over the cache, the server answering every request at
\* the first attempt.
Next == Call_find_child \/ Call_find_path \/ SendAnswered

Spec == Init /\ [][Next]_vars

\* The retry loop and the refresh it drives, under one authorized request
\* after another, against any server.
NextRetry == Call_rm \/ Send

SpecRetry == Init /\ [][NextRetry]_vars

\* The same against the server that always reports an expired token.
NextExpired == Call_rm \/ SendExpired

SpecExpired == Init /\ [][NextExpired]_vars

\* Folder creation over the cache, the server answering every request at
\* the first attempt.
NextMkdir == Call_mkdir \/ Call_mkdir_all \/ Call_find_child \/ SendAnswered

SpecMkdir == Init /\ [][NextMkdir]_vars

\* The operations on one key, against a server that may fail any attempt.
NextUpload == Call_upload \/ Call_mkdir \/ Call_find_child \/ SendLive

SpecUpload == Init /\ [][NextUpload]_vars

\* The operations that read, against a server that may fail any attempt.
NextRead == Call_find_child \/ Call_find_path \/ Call_ls \/ Call_download \/ SendLive

SpecRead == Init /\ [][NextRead]_vars

\* A client that lives on: time passes between its operations.
NextEndpoint == Tick \/ Call_rm \/ Call_download \/ SendAnswered

SpecEndpoint == InitEndpoint /\ [][NextEndpoint]_vars

\* The retry loop and its backoff, under one authorized request after
\* another.
NextBackoff == Call_rm \/ SendFew

SpecBackoff == Init /\ [][NextBackoff]_vars

\* The cache table on its own.
NextCache == Insert \/ Fetch

SpecCache == Init /\ [][NextCache]_vars

\* ========================================================= properties ===
\* The calls of get_server_response_with_retry in progress or just returned.
Frames ==
    { stack[i] : i \in DOMAIN stack } \cup { returned[i] : i \in DOMAIN returned }

Returned == { returned[i] : i \in DOMAIN returned }

\* The sends one call may make if it refreshes at most once: four failed
\* attempts and the expired answer before the refresh, five attempts after.
SendBound == 2 * MAXIMUM_RETRY

\* --- C1 ---
\* C1: within one call of get_server_response_with_retry,
\* refresh_authorization is invoked at most once (under SpecExpired: the
\* server answers every authorized send with the expired-token payload).
C1_RefreshAtMostOnce == \A f \in Frames : f.refreshes <= 1

\* --- C2 ---
\* C2: a call of get_server_response_with_retry ends after a bounded number
\* of sends: no call ever makes more than SendBound sends (under
\* SpecExpired).
C2_SendsBounded == \A f \in Frames : f.sends <= SendBound

\* --- C3 ---
\* C3: a call whose every send fails at the transport level makes exactly
\* MAXIMUM_RETRY sends, returns the transport error of its last send, and
\* every send but the first was preceded by a backoff sleep.
C3_TransportCeiling ==
    \A f \in Frames :
        f.allTransport =>
            /\ f.sends <= MAXIMUM_RETRY
            /\ f.sleeps = (IF f.sends = 0 THEN 0 ELSE f.sends - 1)
            /\ f.pc = "send" => f.sends < MAXIMUM_RETRY
            /\ f.pc = "ret" =>
                /\ f.sends = MAXIMUM_RETRY
                /\ f.last.kind = "transport"
                /\ f.result = Err(f.last.err)

C3_Witness ==
    \E f \in Returned :
        /\ f.allTransport
        /\ f.sends = MAXIMUM_RETRY
        /\ f.sleeps = MAXIMUM_RETRY - 1
        /\ f.result = Err("Io")

\* --- C4 ---
\* C4: transport failures and 5xx answers count on one counter: a call
\* that has seen MAXIMUM_RETRY of them in a row, of either kind, has ended;
\* and a call that ended on a 5xx answer returns ServerError with that
\* answer's status and body, not Ok.
C4_ServerErrorCounted ==
    \A f \in Frames :
        /\ f.fails <= MAXIMUM_RETRY
        /\ f.fails = MAXIMUM_RETRY => f.pc = "ret"
        /\ (f.pc = "ret" /\ FailedAttempt(f.last)) => f.fails = MAXIMUM_RETRY
        /\ (f.pc = "ret" /\ FailedAttempt(f.last) /\ f.last.kind = "http") =>
                /\ f.result.tag = "ServerError"
                /\ f.result.status = f.last.status
                /\ f.result.body = f.last.body

C4_Witness ==
    \E f \in Returned :
        /\ f.sends = MAXIMUM_RETRY
        /\ f.fails = MAXIMUM_RETRY
        /\ ~f.allTransport
        /\ ~f.allServer
        /\ f.last.kind = "http"
        /\ f.result.tag = "ServerError"
        /\ f.result.status = 500

\* --- C5 ---
\* C5: an answer that is neither a failed attempt nor the expired-token
\* payload ends the call at once: the call sends nothing after it and
\* returns Ok with that answer's status and body.
C5_OtherAnswerReturned ==
    \A f \in Frames :
        /\ f.answered <= 1
        /\ f.answered = 1 =>
            /\ f.pc = "ret"
            /\ ~FailedAttempt(f.last) /\ ~ExpiredPayload(f.last)
            /\ f.result = Ok(f.last.status, f.last.body)
        /\ (f.pc = "ret" /\ f.last.kind = "http"
              /\ ~FailedAttempt(f.last) /\ ~ExpiredPayload(f.last)) => f.answered = 1

C5_Witness ==
    \E f \in Returned :
        /\ f.answered = 1
        /\ f.sends > 1
        /\ f.last.status = 409
        /\ f.result = Ok(409, f.last.body)

\* --- C6 ---
\* C6: after an expired-token answer and a refresh that succeeded the
\* call's retry counter is 0 and the sends that follow carry the access
\* token that refresh was given; after a refresh that failed the call has
\* returned the refresh's error without sending its request again.
C6_RefreshThenResend ==
    /\ \A f \in Frames :
        /\ (IsOk(f.refRes) /\ f.pc = "send" /\ f.sinceRefresh = 0) => f.retry_count = 0
        /\ (IsOk(f.refRes) /\ f.pc # "refresh" /\ f.sinceRefresh > 0) => f.sentTok = f.refTok
        /\ IsErr(f.refRes) => f.pc = "ret" /\ f.result = f.refRes /\ f.sinceRefresh = 0
    /\ Len(returned) = 2 =>
        /\ IsErr(returned[2].refRes)
        /\ IsErr(returned[1].result) => returned[2].result = returned[1].result
        /\ IsOk(returned[1].result) =>
              returned[2].result.tag \in
                  {"UnknownServerError", "ResponseNotUtf8", "ResponseBadJson", "IoFile"}

C6_Witness ==
    \E f \in Frames :
        /\ IsOk(f.refRes)
        /\ f.sinceRefresh > 0
        /\ f.rejTok # f.refTok
        /\ f.sentTok = f.refTok

\* --- C7 ---
\* The call f is a token exchange that was answered 200 with a body that
\* decodes as an O2TokenResponse.
TokenExchangeAnswered(f) ==
    /\ f.req = "token"
    /\ f.last.kind = "http"
    /\ f.last.status = 200
    /\ f.last.body.kind = "token"

\* What one step may do to the stored authorization.
C7_Step ==
    /\ (returned' # <<>> /\ returned'[1].req = "token"
          /\ ~TokenExchangeAnswered(returned'[1])) => authorization' = authorization
    /\ authorization' # authorization =>
        /\ returned' # <<>>
        /\ TokenExchangeAnswered(returned'[1])
        /\ authorization'.access_token = returned'[1].last.body.access_token
        /\ authorization'.refresh_token = returned'[1].last.body.refresh_token
        /\ authorization'.token_type = returned'[1].last.body.token_type

\* C7: a step in which a token exchange ends in failure (retries exhausted
\* on transport failures or 5xx answers, a status other than 200, a body
\* that does not decode) leaves the stored authorization as it was; and a
\* step changes the stored authorization only when a token exchange was
\* answered 200 with a decodable body, and then stores that body's tokens.
C7_StoredTokens == [][C7_Step]_vars

C7_Witness ==
    /\ Len(returned) = 2
    /\ returned[1].req = "token"
    /\ returned[1].last.kind = "http"
    /\ returned[1].last.status # 200
    /\ IsErr(returned[2].refRes)
    /\ authorization.refresh_token = 2

\* --- C8 ---
\* The row inserted last for a key.
LastRow(c, parent, name) ==
    CHOOSE i \in Matching(c, parent, name) :
        \A k \in Matching(c, parent, name) : k <= i

\* C8: a lookup of a key returns the child of the latest insert for that
\* key, whatever was inserted for other keys since.

C8_LatestInsertFetched ==
    (fetched.valid /\ Matching(cache, fetched.parent, fetched.name) # {}) =>
        fetched.value = Some(cache[LastRow(cache, fetched.parent, fetched.name)].id)

\* --- C9 ---
\* The rows for a key name more than one child.
SeveralChildren(c, parent, name) ==
    Cardinality({ c[i].id : i \in Matching(c, parent, name) }) > 1

\* C9: with several rows for one key naming different children, repeated
\* lookups of the key all return the same child, the one inserted last.

C9_DuplicateKeyTieBreak ==
    (fetched.valid /\ SeveralChildren(cache, fetched.parent, fetched.name)) =>
        /\ fetched.value.some
        /\ fetched.again => fetched.before = fetched.value
        /\ fetched.value.id = cache[LastRow(cache, fetched.parent, fetched.name)].id

\* --- C10 ---
\* C10: a find_child or find_path that met no cache miss has sent no
\* request and inserted no row, and (its path having only components the
\* walk supports) returns an identifier the cache rows lead to.
C10_CachedWalkIsLocal ==
    (Idle /\ result.kind \in {"find_child", "find_path"} /\ obs.misses = 0) =>
        /\ ~obs.sent
        /\ obs.calls = 0
        /\ obs.inserts = 0
        /\ Len(cache) = obs.rows0
        /\ returned = <<>>
        /\ result.res.tag # "BadPath" =>
            /\ IsOk(result.res)
            /\ result.value.some
            /\ result.value.id \in obs.cached

C10_Witness ==
    /\ Idle
    /\ result.kind = "find_path"
    /\ obs.misses = 0
    /\ obs.depth = 2
    /\ obs.rows0 = 2
    /\ ~obs.sent
    /\ IsOk(result.res)
    /\ result.value = Some("n1")

\* --- C11 ---
\* The answer to the request the operation returned on.
Answer == returned[Len(returned)].last

\* The answer is a 200 child listing with n matches or more.
Listed(resp, n) ==
    /\ resp.kind = "http"
    /\ resp.status = 200
    /\ resp.body.kind = "nodes"
    /\ Len(resp.body.data) >= n

C12_NoMatchIsNone ==
    /\ (obs.kind \in {"find_child", "find_path"} /\ returned # <<>>
          /\ Listed(Answer, 0) /\ Answer.body.data = <<>>) =>
        /\ Idle
        /\ result.res = OkUnit
        /\ result.value = None
        /\ Matching(cache, obs.parent, obs.name) = {}
        /\ obs.inserts = obs.calls - 1
        /\ Len(cache) = obs.rows0 + obs.inserts
    /\ (obs.kind = "find_child" /\ obs.after = "notfound") =>
        /\ obs.misses = 1
        /\ obs.calls = 1

C12_Witness ==
    /\ Idle
    /\ result.kind = "find_path"
    /\ result.res = OkUnit
    /\ result.value = None
    /\ obs.depth = 2
    /\ obs.calls = 1
    /\ obs.rows0 = 1
    /\ Answer.body.data = <<>>

\* --- C13 ---
\* C13: a find_path or mkdir_all whose path holds a component other than
\* RootDir, CurDir or a UTF-8 name returns BadPath.
C13_UnsupportedIsBadPath ==
    (Idle /\ result.kind \in {"find_path", "mkdir_all"} /\ ~obs.supported) =>
        result.res.tag = "BadPath"

\* --- C14 ---
\* C14: mkdir and mkdir_all send a create-folder request only after a remote
\* child lookup for the component: an operation has made no more
\* create-folder requests than lookups.
C14_CreateOnlyAfterLookup ==
    Creates(obs.kind) => obs.creates <= obs.calls - obs.creates

\* --- C15 ---
\* C15: a mkdir whose create-folder request is answered 409 with a conflict
\* body returns Ok with the node id of that body and has appended the row
\* (parent, name, that id); a find_child of the key right after a mkdir
\* returns that id from the cache, without a request.
C15_ConflictIsAbsorbed ==
    /\ (obs.kind = "mkdir" /\ returned # <<>> /\ Answer.kind = "http"
          /\ Answer.status = 409 /\ Answer.body.kind = "conflict") =>
        /\ Idle
        /\ result.res = OkUnit
        /\ result.value = Some(Answer.body.data[1])
        /\ obs.inserts = 1
        /\ cache = Append(SubSeq(cache, 1, obs.rows0),
                          Row(obs.parent, obs.name, Answer.body.data[1]))
    /\ (obs.kind = "find_child" /\ obs.after = "mkdir") =>
        /\ Idle
        /\ obs.calls = 0
        /\ ~obs.sent
        /\ result.res = OkUnit
        /\ result.value = obs.expect

C15_Witness ==
    /\ Idle
    /\ result.kind = "mkdir"
    /\ returned # <<>>
    /\ Answer.status = 409
    /\ obs.rows0 = 1
    /\ result.value = Some("n1")
    /\ cache[2] = Row(obs.parent, obs.name, "n1")

C17_UploadThenFind ==
    (Idle /\ obs.kind = "find_child" /\ obs.after = "upload") =>
        /\ result.res = OkUnit
        /\ result.value = obs.expect

\* --- C18 ---
\* The one-component path of the key the operation in progress is on.
KeyPath == <<[kind |-> "Normal", name |-> obs.name]>>

RowsOfAnswer ==
    /\ Len(cache) = obs.rows0 + obs.inserts
    /\ obs.inserts <= 1
    /\ obs.inserts = 1 =>
        /\ returned # <<>>
        /\ Answer.kind = "http"
        /\ Len(Answer.body.data) >= 1
        /\ cache[Len(cache)] = Row(obs.parent, obs.name, Answer.body.data[1])

\* No row is appended by an operation that returned an error.
NoRowOnError ==
    (result.kind \in KeyOps /\ IsErr(result.res)) =>
        /\ obs.inserts = 0
        /\ Len(cache) = obs.rows0

\* C19 as stated: find_child, mkdir and upload append a row only after a
\* successful (2xx) answer that carries the id of the row, and append none
\* when they return an error.
C19_InsertOnlyAfterSuccess ==
    obs.kind \in KeyOps =>
        /\ RowsOfAnswer
        /\ obs.inserts = 1 => Answer.status \in 200..299
        /\ NoRowOnError

\* The answers after which an operation appends a row.
Accepted(kind, resp) ==
    CASE kind = "find_child" -> resp.status = 200 /\ resp.body.kind = "nodes"
      [] kind = "mkdir" -> \/ resp.status = 201 /\ resp.body.kind = "node"
                           \/ resp.status = 409 /\ resp.body.kind = "conflict"
      [] kind = "upload" -> resp.status = 201 /\ resp.body.kind = "uploaded"
      [] OTHER -> FALSE

\* C19, amended: find_child, mkdir and upload append a row only after the
\* answer they accept, which carries the id of the row (200 with a match for
\* find_child, 201 for mkdir and upload, 409 with a conflict body for
\* mkdir), and append none when they return an error.
C19_InsertOnlyAfterAnswer ==
    obs.kind \in KeyOps =>
        /\ RowsOfAnswer
        /\ obs.inserts = 1 => Accepted(obs.kind, Answer)
        /\ NoRowOnError

C19_Witness ==
    /\ Idle
    /\ obs.kind = "upload"
    /\ obs.rows0 = 1
    /\ returned # <<>>
    /\ returned[1].fails = MAXIMUM_RETRY
    /\ IsErr(result.res)
    /\ Len(cache) = 1

\* --- C20 ---
ReadOps == {"find_child", "find_path", "ls", "download"}

\* C20: when the last call made by find_child, find_path, ls or download
\* returned an error (its retries exhausted on the failure last seen), the
\* operation returns that error, and when it returned a status other than
\* 200 the operation returns UnknownServerError with that status and body;
\* the operation returns Ok only after a 200 answer: Ok(None) after a 200
\* listing with zero matches, the bytes of the 200 answer for download, and
\* for ls a list that ends with the ids of a 200 page that names no next one.
C20_FailureIsErr ==
    (Idle /\ result.kind \in ReadOps /\ returned # <<>>) =>
        LET f == returned[Len(returned)]
        IN  /\ IsErr(f.result) =>
                /\ result.res = f.result
                /\ ~result.value.some
                /\ Answer.kind = "http" =>
                      result.res = ServerErrorResult(Answer.status, Answer.body)
            /\ (IsOk(f.result) /\ f.result.status # 200) =>
                /\ result.res = UnknownServerError(f.result)
                /\ ~result.value.some
            /\ IsOk(result.res) =>
                /\ IsOk(f.result)
                /\ Answer.kind = "http"
                /\ Answer.status = 200
            /\ (result.kind \in {"find_child", "find_path"} /\ IsOk(result.res)
                    /\ ~result.value.some) =>
                /\ Listed(Answer, 0)
                /\ Answer.body.data = <<>>
            /\ (result.kind = "download" /\ IsOk(result.res)) =>
                result.res.body = Answer.body
            /\ (result.kind = "ls" /\ IsOk(result.res)) =>
                /\ Answer.body.kind = "nodes"
                /\ LET ids == result.res.body.data
                       n == Len(Answer.body.data)
                   IN  /\ Len(ids) >= n
                       /\ SubSeq(ids, Len(ids) - n + 1, Len(ids)) = Answer.body.data

C20_Witness ==
    /\ Idle
    /\ result.kind = "ls"
    /\ obs.calls = 2
    /\ returned # <<>>
    /\ returned[1].fails = MAXIMUM_RETRY
    /\ Answer.kind = "http"
    /\ result.res = ServerErrorResult(Answer.status, Answer.body)

\* --- C21 ---
\* C21: no call sends a request built on the urls of the endpoint record
\* while that record is stale (stamped 72 hours ago or more).
C21_NoStaleSend ==
    \A f \in Frames : ~f.stale

\* --- C22 ---
\* The sends of call f that were answered with the expired-token payload:
\* those that neither failed nor were answered otherwise.
ExpiredSeen(f) == f.sends - f.fails - f.answered

\* C22: a call made without a token (authorize = false: the token exchange
\* of a refresh) whose last answer is the expired-token payload has returned
\* the "no token" ServerError in that step, whatever its retry counter, and
\* has started no refresh; the refresh it serves returns that error to the
\* call that started it, which returns it too; and no refresh runs inside a
\* refresh: at most two calls are in progress and the inner one has no token.
C22_NoTokenExpiredIsTerminal ==
    /\ \A f \in Frames :
        /\ ~f.authorize => f.refreshes = 0
        /\ (~f.authorize /\ ExpiredSeen(f) > 0) =>
            /\ ExpiredPayload(f.last)
            /\ f.pc = "ret"
            /\ f.result = NoTokenResult
            /\ Len(returned) = 2
            /\ returned[1] = f
            /\ returned[2].result = NoTokenResult
            /\ stack = <<>>
    /\ Len(stack) <= 2
    /\ Len(stack) = 2 => (stack[1].authorize /\ ~stack[2].authorize)

C22_Witness ==
    /\ Len(returned) = 2
    /\ ~returned[1].authorize
    /\ ExpiredPayload(returned[1].last)
    /\ returned[1].retry_count = 2
    /\ returned[1].sends = 3
    /\ returned[1].result = NoTokenResult

\* --- C23 ---
\* The token exchange f has been answered with a status that is no success:
\* its last answer is one, or all its attempts so far failed on a 5xx.
TurnedDown(f) ==
    /\ f.req = "token"
    /\ \/ f.last.kind = "http" /\ ~is_success(f.last.status)
       \/ f.fails >= 1 /\ f.allServer

\* The token request f has returned, the refresh has returned an error to
\* the call that started it, and that call has returned it without sending
\* its request again.
Fatal(f) ==
    /\ f.pc = "ret"
    /\ stack = <<>>
    /\ Len(returned) = 2
    /\ returned[1] = f
    /\ IsErr(returned[2].result)
    /\ returned[2].refRes = returned[2].result
    /\ returned[2].sinceRefresh = 0

C24_BackoffRange ==
    \A f \in Frames :
        f.sends >= 1 =>
            LET k == f.backoffAt
            IN  /\ ~f.underflow
                /\ k = 0 => f.ceiling = 0
                /\ k >= 1 =>
                    /\ gen_range(0, f.ceiling) # {}
                    /\ \A b \in gen_range(0, f.ceiling) :
                          b \in Nat /\ b < 1000 * 2 ^ (IF k - 1 < 8 THEN k - 1 ELSE 8)
                    /\ f.ceiling <= 1000 * 2 ^ 8
                    /\ k = 1 => f.ceiling = 1000
                    /\ k >= 2 => f.ceiling = 2 * backoff_ceiling(k - 1)

C24_Witness ==
    \E f \in Frames :
        /\ f.backoffAt = 4
        /\ f.sleeps = 4
        /\ f.ceiling = 8000

\* --- C25 ---
\* C25: a find_path or mkdir_all that returned BadPath sent no request and
\* inserted no row during the call.
C25_BadPathDoesNothing ==
    (Idle /\ result.kind \in {"find_path", "mkdir_all"} /\ result.res.tag = "BadPath") =>
        /\ ~obs.sent
        /\ obs.calls = 0
        /\ obs.inserts = 0
        /\ Len(cache) = obs.rows0

\* --- C26 ---
\* C26: the cache holds at most one row for each (parent, name).
C26_OneRowPerKey ==
    \A i, j \in DOMAIN cache :
        (cache[i].parent = cache[j].parent /\ cache[i].name = cache[j].name) => i = j

====
